---- MODULE Spec2Model ----
(***************************************************************************)
(* Loss-function layer of chemprop: the loss selector get_loss_func (the   *)
(* legacy registry of chemprop/loss_functions.py and the current registry  *)
(* of chemprop/train/loss_functions.py) and the losses bounded_mse_loss,   *)
(* mcc_class_loss, mcc_multiclass_loss, sid_loss and wasserstein_loss.     *)
(*                                                                         *)
(* Tensors are sequences (1-D) or sequences of rows (2-D).  Tensor         *)
(* elements are IEEE-like extended numbers: an exact rational, NaN, +inf   *)
(* or -inf, with a signed zero.  A finite number may carry an irrational   *)
(* part, kept as a symbolic linear combination of the atoms ln(a),         *)
(* 1/ln(a) and 1/sqrt(a).                                                  *)
(***************************************************************************)
EXTENDS Integers, Sequences, FiniteSets, TLC

VARIABLES pc, loss_func, call, ret, ret2

vars == <<pc, loss_func, call, ret, ret2>>

(* Python's None, as the value of an omitted argument *)
None == "None"

(***************************************************************************)
(* Extended arithmetic                                                     *)
(***************************************************************************)
AbsInt(x) == IF x < 0 THEN -x ELSE x

RECURSIVE GCD(_, _)
GCD(a, b) == IF b = 0 THEN a ELSE GCD(b, a % b)

(* the rational n/d in lowest terms, d > 0; z marks the IEEE negative zero *)
Q(n, d) ==
    LET g == GCD(AbsInt(n), AbsInt(d))
        s == IF d < 0 THEN -1 ELSE 1
    IN  [k |-> "fin", n |-> (s * n) \div g, d |-> (s * d) \div g, s |-> {}, z |-> FALSE]

NaN  == [k |-> "nan",  n |-> 0, d |-> 1, s |-> {}, z |-> FALSE]
PInf == [k |-> "pinf", n |-> 0, d |-> 1, s |-> {}, z |-> FALSE]
NInf == [k |-> "ninf", n |-> 0, d |-> 1, s |-> {}, z |-> FALSE]
Zero == Q(0, 1)
NegZero == [Zero EXCEPT !.z = TRUE]
One  == Q(1, 1)

IsRat(x) == x.k = "fin" /\ x.s = {}

(* +0.0 or -0.0 *)
IsZero(x) == IsRat(x) /\ x.n = 0

SignedZero(negative) == IF negative THEN NegZero ELSE Zero

(* an irrational atom f(a) with f in {"ln", "rln", "rsqrt"}, scaled by c:   *)
(* ln(a), 1/ln(a) and 1/sqrt(a)                                            *)
Term(f, a, c) == [f |-> f, an |-> a.n, ad |-> a.d, cn |-> c.n, cd |-> c.d]

(* sign of a rational, an infinity, or a single irrational term; 0 for     *)
(* both zeros                                                              *)
Sign(x) ==
    CASE x.k = "pinf" -> 1
      [] x.k = "ninf" -> -1
      [] IsRat(x) -> IF x.n > 0 THEN 1 ELSE IF x.n < 0 THEN -1 ELSE 0
      [] x.k = "fin" /\ x.n = 0 /\ Cardinality(x.s) = 1 ->
            LET t == CHOOSE u \in x.s : TRUE
                c == IF t.cn > 0 THEN 1 ELSE -1
            IN  IF t.f \in {"ln", "rln"} THEN (IF t.an > t.ad THEN c ELSE -c) ELSE c

(* the IEEE sign bit *)
SignBit(x) == IF IsZero(x) THEN x.z ELSE Sign(x) < 0

Inf(negative) == IF negative THEN NInf ELSE PInf

Neg(x) ==
    CASE x.k = "nan"  -> NaN
      [] x.k = "pinf" -> NInf
      [] x.k = "ninf" -> PInf
      [] IsZero(x) -> SignedZero(~x.z)
      [] x.k = "fin"  ->
            [k |-> "fin", n |-> -x.n, d |-> x.d,
             s |-> {[t EXCEPT !.cn = -t.cn] : t \in x.s}, z |-> FALSE]

(* sum of the irrational parts: coefficients of equal atoms are added *)
AddTerms(S, T) ==
    LET atoms == {<<t.f, t.an, t.ad>> : t \in S \cup T}
        coef(U, a) ==
            IF \E t \in U : <<t.f, t.an, t.ad>> = a
            THEN LET t == CHOOSE u \in U : <<u.f, u.an, u.ad>> = a
                 IN  Q(t.cn, t.cd)
            ELSE Zero
        sum(a) == Q(coef(S, a).n * coef(T, a).d + coef(T, a).n * coef(S, a).d,
                    coef(S, a).d * coef(T, a).d)
    IN  {Term(a[1], Q(a[2], a[3]), sum(a)) : a \in {b \in atoms : sum(b).n # 0}}

(* a zero sum is -0.0 only when both addends are -0.0 *)
Add(x, y) ==
    CASE x.k = "nan" \/ y.k = "nan" -> NaN
      [] IsZero(x) /\ IsZero(y) -> SignedZero(x.z /\ y.z)
      [] x.k = "fin" /\ y.k = "fin" ->
            [Q(x.n * y.d + y.n * x.d, x.d * y.d) EXCEPT !.s = AddTerms(x.s, y.s)]
      [] x.k = "fin" -> y
      [] y.k = "fin" -> x
      [] OTHER -> IF x.k = y.k THEN x ELSE NaN

Sub(x, y) == Add(x, Neg(y))

(* product; at least one factor is rational or special *)
Mul(x, y) ==
    CASE x.k = "nan" \/ y.k = "nan" -> NaN
      [] x.k # "fin" \/ y.k # "fin" ->
            IF IsZero(x) \/ IsZero(y) THEN NaN ELSE Inf(SignBit(x) # SignBit(y))
      [] IsZero(x) \/ IsZero(y) -> SignedZero(SignBit(x) # SignBit(y))
      [] IsRat(x) /\ IsRat(y) -> Q(x.n * y.n, x.d * y.d)
      [] IsRat(y) ->
            [Q(x.n * y.n, x.d * y.d) EXCEPT !.s =
                {Term(t.f, Q(t.an, t.ad), Q(t.cn * y.n, t.cd * y.d)) : t \in x.s}]
      [] IsRat(x) ->
            [Q(x.n * y.n, x.d * y.d) EXCEPT !.s =
                {Term(t.f, Q(t.an, t.ad), Q(t.cn * x.n, t.cd * x.d)) : t \in y.s}]

(* the single irrational term of x *)
TheTerm(x) == CHOOSE u \in x.s : TRUE

IsSingleTerm(x) == x.k = "fin" /\ x.n = 0 /\ Cardinality(x.s) = 1

(* quotient; the divisor is rational, special, or a single irrational term *)
Div(x, y) ==
    CASE x.k = "nan" \/ y.k = "nan" -> NaN
      [] x.k # "fin" /\ y.k # "fin" -> NaN
      [] y.k # "fin" -> SignedZero(SignBit(x) # SignBit(y))
      [] IsZero(y) ->
            IF IsZero(x) THEN NaN ELSE Inf(SignBit(x) # SignBit(y))
      [] x.k # "fin" -> Inf(SignBit(x) # SignBit(y))
      [] IsZero(x) -> SignedZero(SignBit(x) # SignBit(y))
      [] IsRat(y) -> Mul(x, Q(y.d, y.n))
      [] IsRat(x) /\ IsSingleTerm(y) /\ TheTerm(y).f = "rsqrt" ->
            (* x / (c / sqrt(a)) = (x * a / c) * (1 / sqrt(a)) *)
            LET t == TheTerm(y)
            IN  [Zero EXCEPT !.s = {Term("rsqrt", Q(t.an, t.ad),
                                         Q(x.n * t.an * t.cd, x.d * t.ad * t.cn))}]
      [] IsRat(x) /\ IsSingleTerm(y) /\ TheTerm(y).f = "ln" ->
            (* x / (c * ln(a)) = (x / c) * (1 / ln(a)) *)
            LET t == TheTerm(y)
            IN  [Zero EXCEPT !.s = {Term("rln", Q(t.an, t.ad),
                                         Q(x.n * t.cd, x.d * t.cn))}]
      [] IsRat(x) /\ IsSingleTerm(y) /\ TheTerm(y).f = "rln" ->
            (* x / (c / ln(a)) = (x / c) * ln(a) *)
            LET t == TheTerm(y)
            IN  [Zero EXCEPT !.s = {Term("ln", Q(t.an, t.ad),
                                         Q(x.n * t.cd, x.d * t.cn))}]

Less(x, y) ==
    /\ x.k # "nan" /\ y.k # "nan"
    /\ CASE x.k = "pinf" -> FALSE
         [] y.k = "ninf" -> FALSE
         [] x.k = "ninf" -> TRUE
         [] y.k = "pinf" -> TRUE
         [] OTHER -> x.n * y.d < y.n * x.d

Abs(x) == IF x.k = "nan" THEN NaN ELSE IF SignBit(x) THEN Neg(x) ELSE x

(* natural logarithm of a rational or special value *)
Log(x) ==
    CASE x.k = "nan"  -> NaN
      [] x.k = "pinf" -> PInf
      [] x.k = "ninf" -> NaN
      [] x.n < 0 -> NaN
      [] x.n = 0 -> NInf
      [] x.n = x.d -> Zero
      [] OTHER -> [Zero EXCEPT !.s = {Term("ln", x, One)}]

IsSquare(n) == \E r \in 0..n : r * r = n
IntSqrt(n) == CHOOSE r \in 0..n : r * r = n

(* square root of a rational or special value; sqrt(-0.0) = -0.0 *)
Sqrt(x) ==
    CASE x.k = "nan"  -> NaN
      [] x.k = "pinf" -> PInf
      [] x.k = "ninf" -> NaN
      [] x.n < 0 -> NaN
      [] x.n = 0 -> x
      [] IsSquare(x.n) /\ IsSquare(x.d) -> Q(IntSqrt(x.n), IntSqrt(x.d))
      [] OTHER -> [Zero EXCEPT !.s = {Term("rsqrt", x, x)}]

(***************************************************************************)
(* Tensor helpers                                                          *)
(***************************************************************************)
(* a bool tensor element used as a number *)
B2Q(b) == IF b THEN One ELSE Zero

(* a torch reduction: the elements are accumulated onto +0.0 *)
RECURSIVE SumSeq(_)
SumSeq(s) == IF s = <<>> THEN Zero ELSE Add(SumSeq(SubSeq(s, 1, Len(s) - 1)), s[Len(s)])

(* torch.sum(x, axis=0) of a 2-D tensor *)
SumAxis0(x) == [j \in 1..Len(x[1]) |-> SumSeq([i \in 1..Len(x) |-> x[i][j]])]

(* torch.sum(x) of a 2-D tensor *)
SumAll(x) == SumSeq([i \in 1..Len(x) |-> SumSeq(x[i])])

(* torch.cumsum(x, axis=1) *)
CumSum(x) == [i \in 1..Len(x) |-> [j \in 1..Len(x[i]) |-> SumSeq(SubSeq(x[i], 1, j))]]

(* a returned tensor: its number of dimensions and its elements *)
T0(v) == [rank |-> 0, data |-> v]
T1(v) == [rank |-> 1, data |-> v]
T2(v) == [rank |-> 2, data |-> v]

(* tensor.shape *)
Shape(x) ==
    CASE x.rank = 0 -> << >>
      [] x.rank = 1 -> <<Len(x.data)>>
      [] x.rank = 2 -> <<Len(x.data), Len(x.data[1])>>

(* elementwise map over two 2-D tensors of equal shape *)
Map2(F(_, _), x, y) == [i \in 1..Len(x) |-> [j \in 1..Len(x[i]) |-> F(x[i][j], y[i][j])]]

(***************************************************************************)
(* Loss selector                                                           *)
(***************************************************************************)
(* dict.get(key, None) *)
DictGet(dict, key) == IF key \in DOMAIN dict THEN dict[key] ELSE None

(* the raised ValueError, classified by its message template *)
Raise(kind, dataset_type, loss_function, keys) ==
    [outcome |-> kind, fn |-> None, dataset_type |-> dataset_type,
     loss_function |-> loss_function, options |-> keys]

Return(fn) ==
    [outcome |-> "callable", fn |-> fn, dataset_type |-> None,
     loss_function |-> None, options |-> {}]

(* registry of chemprop/loss_functions.py, default keyed with None *)
supported_loss_functions_legacy ==
    [regression     |-> (None :> "MSELoss") @@ ("mse" :> "MSELoss"),
     classification |-> (None :> "BCEWithLogitsLoss") @@ ("cross_entropy" :> "BCEWithLogitsLoss"),
     multiclass     |-> (None :> "CrossEntropyLoss") @@ ("cross_entropy" :> "CrossEntropyLoss"),
     spectra        |-> (None :> "sid_loss") @@ ("spectra" :> "sid_loss")
                            @@ ("wasserstein" :> "wasserstein_loss")]

get_loss_func_legacy_unordered(dataset_type, loss_function) ==
    LET inner == IF dataset_type \in DOMAIN supported_loss_functions_legacy
                 THEN supported_loss_functions_legacy[dataset_type]
                 ELSE << >>
        fn == DictGet(inner, loss_function)
    IN  IF fn # None THEN Return(fn)
        ELSE IF loss_function # None
        THEN Raise("UnsupportedLossFunction", dataset_type, loss_function, DOMAIN inner)
        ELSE IF dataset_type \notin DOMAIN supported_loss_functions_legacy
        THEN Raise("UnsupportedDatasetType", dataset_type, None, {})
        ELSE Raise("NoDefaultConfigured", dataset_type, None, {})

(* get_loss_func of chemprop/loss_functions.py *)
get_loss_func_legacy(dataset_type, loss_function) ==
    IF dataset_type \notin DOMAIN supported_loss_functions_legacy
    THEN Raise("UnsupportedDatasetType", dataset_type, None, {})
    ELSE LET fn == DictGet(supported_loss_functions_legacy[dataset_type], loss_function)
         IN  IF fn # None THEN Return(fn)
             ELSE IF loss_function # None
             THEN Raise("UnsupportedLossFunction", dataset_type, loss_function,
                        DOMAIN supported_loss_functions_legacy[dataset_type])
             ELSE Raise("NoDefaultConfigured", dataset_type, None, {})

supported_loss_functions_no_bounded ==
    [regression     |-> ("mse" :> "MSELoss"),
     classification |-> ("binary_cross_entropy" :> "BCEWithLogitsLoss") @@ ("mcc" :> "mcc_class_loss"),
     multiclass     |-> ("cross_entropy" :> "CrossEntropyLoss") @@ ("mcc" :> "mcc_multiclass_loss"),
     spectra        |-> ("sid" :> "sid_loss") @@ ("wasserstein" :> "wasserstein_loss")]

(* registry of chemprop/train/loss_functions.py *)
supported_loss_functions ==
    [regression     |-> ("mse" :> "MSELoss") @@ ("bounded_mse" :> "bounded_mse_loss"),
     classification |-> ("binary_cross_entropy" :> "BCEWithLogitsLoss") @@ ("mcc" :> "mcc_class_loss"),
     multiclass     |-> ("cross_entropy" :> "CrossEntropyLoss") @@ ("mcc" :> "mcc_multiclass_loss"),
     spectra        |-> ("sid" :> "sid_loss") @@ ("wasserstein" :> "wasserstein_loss")]

(* get_loss_func of chemprop/train/loss_functions.py *)
get_loss_func(dataset_type, loss_function) ==
    IF dataset_type \notin DOMAIN supported_loss_functions
    THEN Raise("UnsupportedDatasetType", dataset_type, None, {})
    ELSE LET fn == DictGet(supported_loss_functions[dataset_type], loss_function)
         IN  IF fn # None THEN Return(fn)
             ELSE Raise("UnsupportedLossFunction", dataset_type, loss_function,
                        DOMAIN supported_loss_functions[dataset_type])

(* args.dataset_type and args.loss_function the selector is called with *)
DatasetTypes == {"regression", "classification", "multiclass", "spectra", "ranking"}
LossNames ==
    {None, "mse", "bounded_mse", "binary_cross_entropy", "cross_entropy", "mcc",
     "sid", "spectra", "wasserstein", "f1", "rmse"}

InitSel ==
    /\ pc = "start"
    /\ call \in [selector : {"legacy", "current"}, dataset_type : DatasetTypes,
                 loss_function : LossNames]
    /\ loss_func = None
    /\ ret = None
    /\ ret2 = None

SelectLegacy ==
    /\ pc = "start"
    /\ call.selector = "legacy"
    /\ ret' = get_loss_func_legacy(call.dataset_type, call.loss_function)
    /\ pc' = "done"
    /\ UNCHANGED <<loss_func, call, ret2>>

SelectCurrent ==
    /\ pc = "start"
    /\ call.selector = "current"
    /\ ret' = get_loss_func(call.dataset_type, call.loss_function)
    /\ pc' = "done"
    /\ UNCHANGED <<loss_func, call, ret2>>

NextSel == SelectLegacy \/ SelectCurrent

SpecSel == InitSel /\ [][NextSel]_vars

(***************************************************************************)
(* Claims about the loss selector (checked under SpecSel)                  *)
(***************************************************************************)
RecognizedTypes == {"regression", "classification", "multiclass", "spectra"}

(* the registry table of the external-interfaces section *)
RegistryTable ==
    (<<"regression", "mse">> :> "MSELoss")
    @@ (<<"regression", "bounded_mse">> :> "bounded_mse_loss")
    @@ (<<"classification", "binary_cross_entropy">> :> "BCEWithLogitsLoss")
    @@ (<<"classification", "cross_entropy">> :> "BCEWithLogitsLoss")
    @@ (<<"classification", "mcc">> :> "mcc_class_loss")
    @@ (<<"multiclass", "cross_entropy">> :> "CrossEntropyLoss")
    @@ (<<"multiclass", "mcc">> :> "mcc_multiclass_loss")
    @@ (<<"spectra", "sid">> :> "sid_loss")
    @@ (<<"spectra", "spectra">> :> "sid_loss")
    @@ (<<"spectra", "wasserstein">> :> "wasserstein_loss")

(* table pairs that use a name of the legacy naming scheme only *)
LegacyOnlyPairs == {<<"classification", "cross_entropy">>, <<"spectra", "spectra">>}

(* table pairs the legacy selector knows *)
LegacyPairs ==
    {<<"regression", "mse">>, <<"classification", "cross_entropy">>,
     <<"multiclass", "cross_entropy">>, <<"spectra", "spectra">>,
     <<"spectra", "wasserstein">>}

DefaultLoss ==
    [regression |-> "MSELoss", classification |-> "BCEWithLogitsLoss",
     multiclass |-> "CrossEntropyLoss", spectra |-> "sid_loss"]

(* the names each selector's message is expected to list *)
NamesOf(selector, dataset_type) ==
    IF selector = "current"
    THEN CASE dataset_type = "regression" -> {"mse", "bounded_mse"}
           [] dataset_type = "classification" -> {"binary_cross_entropy", "mcc"}
           [] dataset_type = "multiclass" -> {"cross_entropy", "mcc"}
           [] dataset_type = "spectra" -> {"sid", "wasserstein"}
    ELSE CASE dataset_type = "regression" -> {"mse"}
           [] dataset_type = "classification" -> {"cross_entropy"}
           [] dataset_type = "multiclass" -> {"cross_entropy"}
           [] dataset_type = "spectra" -> {"spectra", "wasserstein"}

CallPair == <<call.dataset_type, call.loss_function>>

(* C1 as stated: the current selector returns a callable for every pair of *)
(* the registry table, legacy names included.                              *)
C1_Original ==
    (pc = "done" /\ call.selector = "current" /\ CallPair \in DOMAIN RegistryTable)
        => ret.outcome = "callable"

(* C1 amended: for every pair of the registry table the current selector   *)
(* returns the table's loss, except for the two legacy-only names          *)
(* (classification, cross_entropy) and (spectra, spectra), which it        *)
(* rejects with the unsupported-loss-function error; those two are         *)
(* accepted by the legacy selector, which returns the table's loss for     *)
(* exactly the pairs of the legacy scheme.                                 *)
C1_Amended ==
    (pc = "done" /\ CallPair \in DOMAIN RegistryTable) =>
        /\ call.selector = "current" /\ CallPair \notin LegacyOnlyPairs
              => ret.outcome = "callable" /\ ret.fn = RegistryTable[CallPair]
        /\ call.selector = "current" /\ CallPair \in LegacyOnlyPairs
              => ret.outcome = "UnsupportedLossFunction"
        /\ call.selector = "legacy" /\ CallPair \in LegacyPairs
              => ret.outcome = "callable" /\ ret.fn = RegistryTable[CallPair]
        /\ call.selector = "legacy" /\ CallPair \notin LegacyPairs
              => ret.outcome = "UnsupportedLossFunction"

C1_Witness ==
    /\ pc = "done" /\ call.selector = "current"
    /\ CallPair = <<"classification", "cross_entropy">>
    /\ ret.outcome = "UnsupportedLossFunction"

(* C2: with the loss name omitted and a recognized dataset type, the       *)
(* current selector returns the dataset type's default loss instead of     *)
(* raising an error.                                                       *)
C2_Original ==
    (pc = "done" /\ call.selector = "current" /\ call.loss_function = None
        /\ call.dataset_type \in RecognizedTypes)
        => ret.outcome = "callable" /\ ret.fn = DefaultLoss[call.dataset_type]

(* C3 as stated: an unrecognized dataset type always fails with the        *)
(* unsupported-dataset-type error; a given name that is not registered for *)
(* a recognized dataset type fails with the unsupported-loss-function      *)
(* error listing exactly the registered loss names, without a default key. *)
C3_Original ==
    pc = "done" =>
        /\ call.dataset_type \notin RecognizedTypes
              => ret.outcome = "UnsupportedDatasetType"
        /\ (call.dataset_type \in RecognizedTypes /\ call.loss_function # None
                /\ call.loss_function \notin NamesOf(call.selector, call.dataset_type))
              => /\ ret.outcome = "UnsupportedLossFunction"
                 /\ ret.options = NamesOf(call.selector, call.dataset_type)

(* C3 amended: as stated, except that the message lists the keys of the    *)
(* dataset type's registry: the registered loss names in the current       *)
(* selector, and the registered loss names together with the None default  *)
(* key in the legacy selector.                                             *)
C3_Amended ==
    pc = "done" =>
        /\ call.dataset_type \notin RecognizedTypes
              => ret.outcome = "UnsupportedDatasetType"
        /\ (call.dataset_type \in RecognizedTypes /\ call.loss_function # None
                /\ call.loss_function \notin NamesOf(call.selector, call.dataset_type))
              => /\ ret.outcome = "UnsupportedLossFunction"
                 /\ ret.options = NamesOf(call.selector, call.dataset_type)
                        \cup (IF call.selector = "legacy" THEN {None} ELSE {})

C3_Witness ==
    /\ pc = "done" /\ call.selector = "legacy" /\ call.dataset_type = "regression"
    /\ call.loss_function = "mcc" /\ ret.outcome = "UnsupportedLossFunction"
    /\ None \in ret.options

(***************************************************************************)
(* Elementwise losses                                                      *)
(***************************************************************************)
(* all tensors of shape (b, t) with elements in V *)
Tensors(b, t, V) == [1..b -> [1..t -> V]]

(* nn.MSELoss(reduction='none') / nn.functional.mse_loss(reduction='none') *)
mse_loss(predictions, targets) ==
    LET sq(p, t) == Mul(Sub(p, t), Sub(p, t))
    IN  T2(Map2(sq, predictions, targets))

bounded_mse_loss_same_side(predictions, targets, less_than_target, greater_than_target) ==
    LET up(i, j) == IF Less(predictions[i][j], targets[i][j]) /\ less_than_target[i][j]
                    THEN targets[i][j] ELSE predictions[i][j]
        clamped == [i \in 1..Len(predictions) |->
                        [j \in 1..Len(predictions[i]) |->
                            IF Less(up(i, j), targets[i][j]) /\ greater_than_target[i][j]
                            THEN targets[i][j] ELSE up(i, j)]]
    IN  mse_loss(clamped, targets)

bounded_mse_loss(predictions, targets, less_than_target, greater_than_target) ==
    LET (* first torch.where: clamp up to the target *)
        up == [i \in 1..Len(predictions) |->
                  [j \in 1..Len(predictions[i]) |->
                      IF Less(predictions[i][j], targets[i][j]) /\ less_than_target[i][j]
                      THEN targets[i][j] ELSE predictions[i][j]]]
        (* second torch.where, applied to the result of the first *)
        clamped == [i \in 1..Len(up) |->
                       [j \in 1..Len(up[i]) |->
                           IF Less(targets[i][j], up[i][j]) /\ greater_than_target[i][j]
                           THEN targets[i][j] ELSE up[i][j]]]
    IN  mse_loss(clamped, targets)

BmseCols == 1
BmseMaxVal == 2
BmseValues == {Q(v, 1) : v \in -BmseMaxVal..BmseMaxVal}

InitBmse ==
    /\ pc = "start"
    /\ call \in [predictions : Tensors(1, BmseCols, BmseValues),
                 targets : Tensors(1, BmseCols, BmseValues),
                 less_than_target : Tensors(1, BmseCols, BOOLEAN),
                 greater_than_target : Tensors(1, BmseCols, BOOLEAN)]
    /\ loss_func = None
    /\ ret = None
    /\ ret2 = None

CallBoundedMse ==
    /\ pc = "start"
    /\ ret' = bounded_mse_loss(call.predictions, call.targets,
                               call.less_than_target, call.greater_than_target)
    /\ ret2' = mse_loss(call.predictions, call.targets)
    /\ loss_func' = "bounded_mse_loss"
    /\ pc' = "done"
    /\ UNCHANGED call

NextBmse == CallBoundedMse

SpecBmse == InitBmse /\ [][NextBmse]_vars

(* C4: every element of bounded_mse_loss is 0 when (p < t and lt) or       *)
(* (p > t and gt), and (p - t)^2 otherwise; it never exceeds the plain     *)
(* squared error and equals it when both flags are false.                  *)
C4_BoundedMse ==
    pc = "done" =>
        \A i \in 1..Len(call.predictions) : \A j \in 1..Len(call.predictions[i]) :
            LET p == call.predictions[i][j].n
                t == call.targets[i][j].n
                lt == call.less_than_target[i][j]
                gt == call.greater_than_target[i][j]
                loss == ret.data[i][j]
                plain == ret2.data[i][j]
            IN  /\ loss = IF (p < t /\ lt) \/ (p > t /\ gt)
                          THEN Zero ELSE Q((p - t) * (p - t), 1)
                /\ ~Less(plain, loss)
                /\ (~lt /\ ~gt) => loss = plain

C4_Witness ==
    /\ pc = "done"
    /\ call.predictions[1][1].n < call.targets[1][1].n
    /\ call.less_than_target[1][1] /\ call.greater_than_target[1][1]
    /\ ret.data[1][1] = Zero /\ ret2.data[1][1] = Q(16, 1)

(***************************************************************************)
(* Spectral losses                                                         *)
(***************************************************************************)
(* threshold: float = None *)
NoThreshold == [k |-> "none", n |-> 0, d |-> 1, s |-> {}, z |-> FALSE]

NormalizeSpectra_no_div(model_spectra, mask, threshold) ==
    [i \in 1..Len(model_spectra) |->
        [j \in 1..Len(model_spectra[i]) |->
            IF ~mask[i][j] THEN Zero
            ELSE IF threshold.k # "none" /\ Less(model_spectra[i][j], threshold)
            THEN threshold ELSE model_spectra[i][j]]]

(* the normalization shared by sid_loss and wasserstein_loss:              *)
(* threshold clamp, zero the excluded elements, divide by the row sum      *)
NormalizeSpectra(model_spectra, mask, threshold) ==
    LET clamped == [i \in 1..Len(model_spectra) |->
                       [j \in 1..Len(model_spectra[i]) |->
                           IF threshold.k # "none" /\ Less(model_spectra[i][j], threshold)
                           THEN threshold ELSE model_spectra[i][j]]]
        masked == [i \in 1..Len(clamped) |->
                      [j \in 1..Len(clamped[i]) |->
                          IF mask[i][j] THEN clamped[i][j] ELSE Zero]]
        sum_model_spectra == [i \in 1..Len(masked) |-> SumSeq(masked[i])]
    IN  [i \in 1..Len(masked) |->
            [j \in 1..Len(masked[i]) |-> Div(masked[i][j], sum_model_spectra[i])]]

sid_loss_unpatched(model_spectra, target_spectra, mask, threshold) ==
    LET normalized == NormalizeSpectra(model_spectra, mask, threshold)
        target == [i \in 1..Len(target_spectra) |->
                      [j \in 1..Len(target_spectra[i]) |->
                          IF mask[i][j] THEN target_spectra[i][j] ELSE One]]
        term(m, t) == Add(Mul(Log(Div(m, t)), m), Mul(Log(Div(t, m)), t))
    IN  T2(Map2(term, normalized, target))

sid_loss(model_spectra, target_spectra, mask, threshold) ==
    LET normalized == NormalizeSpectra(model_spectra, mask, threshold)
        (* torch.where(mask, ., one_sub) on both sides *)
        target == [i \in 1..Len(target_spectra) |->
                      [j \in 1..Len(target_spectra[i]) |->
                          IF mask[i][j] THEN target_spectra[i][j] ELSE One]]
        model == [i \in 1..Len(normalized) |->
                     [j \in 1..Len(normalized[i]) |->
                         IF mask[i][j] THEN normalized[i][j] ELSE One]]
        term(m, t) == Add(Mul(Log(Div(m, t)), m), Mul(Log(Div(t, m)), t))
    IN  T2(Map2(term, model, target))

wasserstein_loss_no_target_cum(model_spectra, target_spectra, mask, threshold) ==
    LET normalized == NormalizeSpectra(model_spectra, mask, threshold)
        model_cum == CumSum(normalized)
        dist(t, m) == Abs(Sub(t, m))
    IN  T2(Map2(dist, target_spectra, model_cum))

wasserstein_loss(model_spectra, target_spectra, mask, threshold) ==
    LET normalized == NormalizeSpectra(model_spectra, mask, threshold)
        target_cum == CumSum(target_spectra)
        model_cum == CumSum(normalized)
        dist(t, m) == Abs(Sub(t, m))
    IN  T2(Map2(dist, target_cum, model_cum))

(* the spectral loss named by loss_func *)
SpectralLoss(name, model_spectra, target_spectra, mask, threshold) ==
    IF name = "sid_loss"
    THEN sid_loss(model_spectra, target_spectra, mask, threshold)
    ELSE wasserstein_loss(model_spectra, target_spectra, mask, threshold)

SpecLen == 2
SpecMaxNum == 2

(* spectrum values: multiples of 1/3 *)
SpecValues == {Q(v, 3) : v \in 0..SpecMaxNum}
Thresholds == {NoThreshold, Q(1, 2)}
Scales == {Q(1, 2), Q(3, 1)}

IsNormalized(row) == SumSeq(row) = One

(* a batch of one spectrum; the target is normalized to sum to 1 *)
InitSpectra ==
    /\ pc = "start"
    /\ loss_func = None
    /\ \E m \in [1..SpecLen -> SpecValues], mk \in [1..SpecLen -> BOOLEAN],
          t \in {r \in [1..SpecLen -> SpecValues \cup {One}] : IsNormalized(r)},
          th \in Thresholds :
          call = [model_spectra |-> <<m>>, target_spectra |-> <<t>>, mask |-> <<mk>>,
                  threshold |-> th, scale |-> One, other_target |-> <<t>>]
    /\ ret = None
    /\ ret2 = None

CallSid ==
    /\ pc = "start"
    /\ loss_func' = "sid_loss"
    /\ ret' = sid_loss(call.model_spectra, call.target_spectra, call.mask, call.threshold)
    /\ pc' = "called"
    /\ UNCHANGED <<call, ret2>>

CallWasserstein ==
    /\ pc = "start"
    /\ loss_func' = "wasserstein_loss"
    /\ ret' = wasserstein_loss(call.model_spectra, call.target_spectra, call.mask,
                               call.threshold)
    /\ pc' = "called"
    /\ UNCHANGED <<call, ret2>>

(* a second call, with the raw model_spectra multiplied by a positive constant *)
CallScaled ==
    /\ pc = "called"
    /\ \E c \in Scales :
          /\ call' = [call EXCEPT !.scale = c]
          /\ ret2' = SpectralLoss(loss_func,
                        [i \in 1..Len(call.model_spectra) |->
                            [j \in 1..Len(call.model_spectra[i]) |->
                                Mul(c, call.model_spectra[i][j])]],
                        call.target_spectra, call.mask, call.threshold)
    /\ pc' = "scaled"
    /\ UNCHANGED <<loss_func, ret>>

(* a second call, with another target value at one excluded position *)
CallRetargeted ==
    /\ pc = "called"
    /\ \E j \in 1..SpecLen, v \in {Zero, One, NaN} :
          /\ ~call.mask[1][j]
          /\ call' = [call EXCEPT !.other_target[1][j] = v]
          /\ ret2' = SpectralLoss(loss_func, call.model_spectra,
                        [call.target_spectra EXCEPT ![1][j] = v],
                        call.mask, call.threshold)
    /\ pc' = "retargeted"
    /\ UNCHANGED <<loss_func, ret>>

NextSpectra == CallSid \/ CallWasserstein \/ CallScaled \/ CallRetargeted

SpecSpectra == InitSpectra /\ [][NextSpectra]_vars

(***************************************************************************)
(* Library losses and confusion-statistic losses                           *)
(***************************************************************************)
(* a value computed by a torch library loss, kept uninterpreted *)
Opaque(name, x, t) == [k |-> "opaque", f |-> name, x |-> x, t |-> t]

(* nn.BCEWithLogitsLoss(reduction='none'): elementwise *)
bce_with_logits_loss(predictions, targets) ==
    LET bce(x, t) == Opaque("bce_with_logits", x, t)
    IN  T2(Map2(bce, predictions, targets))

(* nn.CrossEntropyLoss(reduction='none') on (batch, classes) scores and     *)
(* (batch,) class indices: one value per sample                            *)
cross_entropy_loss(predictions, targets) ==
    T1([i \in 1..Len(predictions) |-> Opaque("cross_entropy", predictions[i], targets[i])])

(* targets * predictions * data_weights * mask and its three siblings;     *)
(* data_weights has shape (batch, 1) and broadcasts over the task axis     *)
Confusion(predictions, targets, data_weights, mask, tpos, ppos) ==
    [i \in 1..Len(predictions) |->
        [j \in 1..Len(predictions[i]) |->
            Mul(Mul(Mul(IF tpos THEN targets[i][j] ELSE Sub(One, targets[i][j]),
                        IF ppos THEN predictions[i][j] ELSE Sub(One, predictions[i][j])),
                    data_weights[i][1]),
                B2Q(mask[i][j]))]]

mcc_class_loss_global(predictions, targets, data_weights, mask) ==
    LET TP == SumAll(Confusion(predictions, targets, data_weights, mask, TRUE, TRUE))
        FP == SumAll(Confusion(predictions, targets, data_weights, mask, FALSE, TRUE))
        FN == SumAll(Confusion(predictions, targets, data_weights, mask, TRUE, FALSE))
        TN == SumAll(Confusion(predictions, targets, data_weights, mask, FALSE, FALSE))
    IN  T0(Sub(One, Div(Sub(Mul(TP, TN), Mul(FP, FN)),
                        Sqrt(Mul(Mul(Add(TP, FP), Add(TP, FN)),
                                 Mul(Add(TN, FP), Add(TN, FN)))))))

mcc_class_loss_guarded(predictions, targets, data_weights, mask) ==
    LET TP == SumAxis0(Confusion(predictions, targets, data_weights, mask, TRUE, TRUE))
        FP == SumAxis0(Confusion(predictions, targets, data_weights, mask, FALSE, TRUE))
        FN == SumAxis0(Confusion(predictions, targets, data_weights, mask, TRUE, FALSE))
        TN == SumAxis0(Confusion(predictions, targets, data_weights, mask, FALSE, FALSE))
        den(j) == Sqrt(Mul(Mul(Add(TP[j], FP[j]), Add(TP[j], FN[j])),
                           Mul(Add(TN[j], FP[j]), Add(TN[j], FN[j]))))
    IN  T1([j \in 1..Len(TP) |->
              IF den(j) = Zero THEN One
              ELSE Sub(One, Div(Sub(Mul(TP[j], TN[j]), Mul(FP[j], FN[j])), den(j)))])

mcc_class_loss(predictions, targets, data_weights, mask) ==
    LET TP == SumAxis0(Confusion(predictions, targets, data_weights, mask, TRUE, TRUE))
        FP == SumAxis0(Confusion(predictions, targets, data_weights, mask, FALSE, TRUE))
        FN == SumAxis0(Confusion(predictions, targets, data_weights, mask, TRUE, FALSE))
        TN == SumAxis0(Confusion(predictions, targets, data_weights, mask, FALSE, FALSE))
    IN  T1([j \in 1..Len(TP) |->
              Sub(One, Div(Sub(Mul(TP[j], TN[j]), Mul(FP[j], FN[j])),
                           Sqrt(Mul(Mul(Add(TP[j], FP[j]), Add(TP[j], FN[j])),
                                    Mul(Add(TN[j], FP[j]), Add(TN[j], FN[j]))))))])

(* targets: (batch,) class indices counted from 0; data_weights and mask:  *)
(* (batch,), unsqueezed to broadcast over the class axis                   *)
mcc_multiclass_loss(predictions, targets, data_weights, mask) ==
    LET bin_targets == [i \in 1..Len(predictions) |->
                           [j \in 1..Len(predictions[i]) |->
                               IF j = targets[i] + 1 THEN One ELSE Zero]]
        wm(x) == [i \in 1..Len(x) |->
                     [j \in 1..Len(x[i]) |->
                         Mul(Mul(x[i][j], data_weights[i]), B2Q(mask[i]))]]
        sq(x) == [j \in 1..Len(x) |-> Mul(x[j], x[j])]
        pred_mass == SumAxis0(wm(predictions))
        true_mass == SumAxis0(wm(bin_targets))
        c == SumAll(wm(Map2(Mul, predictions, bin_targets)))
        s == SumAll(wm(predictions))
        pt == SumSeq([j \in 1..Len(pred_mass) |-> Mul(pred_mass[j], true_mass[j])])
        p2 == SumSeq(sq(pred_mass))
        t2 == SumSeq(sq(true_mass))
    IN  T0(Sub(One, Div(Sub(Mul(c, s), pt),
                        Sqrt(Mul(Sub(Mul(s, s), p2), Sub(Mul(s, s), t2))))))

MaxBatch == 2
MaxTasks == 2

Half == Q(1, 2)

(* predictions derived from 0/1 targets: equal, complementary, or 1/2 *)
Predict(kind, targets) ==
    [i \in 1..Len(targets) |->
        [j \in 1..Len(targets[i]) |->
            CASE kind = "perfect" -> targets[i][j]
              [] kind = "anti" -> Sub(One, targets[i][j])
              [] kind = "half" -> Half]]

(* the full mask, and the mask that excludes the last element *)
Masks(b, t) ==
    {[i \in 1..b |-> [j \in 1..t |-> <<i, j>> # e]] : e \in {<<0, 0>>, <<b, t>>}}

(* class index of a 0/1 target row: its first 1, or class 0 *)
ClassIndex(row) ==
    IF \E j \in 1..Len(row) : row[j] = One
    THEN (CHOOSE j \in 1..Len(row) : row[j] = One /\ \A h \in 1..(j - 1) : row[h] # One) - 1
    ELSE 0

InitLoss ==
    /\ pc = "start"
    /\ loss_func = None
    /\ \E b \in 1..MaxBatch, t \in 1..MaxTasks :
          \E tg \in Tensors(b, t, {Zero, One}), kind \in {"perfect", "anti", "half"},
             mk \in Masks(b, t) :
             call = [predictions |-> Predict(kind, tg), targets |-> tg, mask |-> mk,
                     data_weights |-> [i \in 1..b |-> <<One>>], kind |-> kind]
    /\ ret = None
    /\ ret2 = None

Applied(name, out) ==
    /\ pc = "start"
    /\ loss_func' = name
    /\ ret' = out
    /\ pc' = "done"
    /\ UNCHANGED <<call, ret2>>

CallMse == Applied("MSELoss", mse_loss(call.predictions, call.targets))

(* the bound flags are taken from the mask and its complement *)
CallBoundedMseLoss ==
    Applied("bounded_mse_loss",
            bounded_mse_loss(call.predictions, call.targets, call.mask,
                             [i \in 1..Len(call.mask) |->
                                 [j \in 1..Len(call.mask[i]) |-> ~call.mask[i][j]]]))

CallBce == Applied("BCEWithLogitsLoss", bce_with_logits_loss(call.predictions, call.targets))

CallMccClass ==
    Applied("mcc_class_loss",
            mcc_class_loss(call.predictions, call.targets, call.data_weights, call.mask))

(* multiclass calls: predictions are (batch, classes) scores, targets the  *)
(* class index of each row, data_weights and mask one value per row        *)
CallCrossEntropy ==
    Applied("CrossEntropyLoss",
            cross_entropy_loss(call.predictions,
                               [i \in 1..Len(call.targets) |-> ClassIndex(call.targets[i])]))

CallMccMulticlass ==
    Applied("mcc_multiclass_loss",
            mcc_multiclass_loss(call.predictions,
                                [i \in 1..Len(call.targets) |-> ClassIndex(call.targets[i])],
                                [i \in 1..Len(call.data_weights) |-> call.data_weights[i][1]],
                                [i \in 1..Len(call.mask) |-> call.mask[i][1]]))

CallSidLoss ==
    Applied("sid_loss",
            sid_loss(call.predictions, call.targets, call.mask, NoThreshold))

CallWassersteinLoss ==
    Applied("wasserstein_loss",
            wasserstein_loss(call.predictions, call.targets, call.mask, NoThreshold))

NextLoss ==
    \/ CallMse \/ CallBoundedMseLoss \/ CallBce \/ CallMccClass
    \/ CallCrossEntropy \/ CallMccMulticlass \/ CallSidLoss \/ CallWassersteinLoss

SpecLoss == InitLoss /\ [][NextLoss]_vars

(***************************************************************************)
(* Claims about output shapes and the binary MCC loss (under SpecLoss)     *)
(***************************************************************************)
InputShape == <<Len(call.predictions), Len(call.predictions[1])>>

(* C5 as stated: every loss callable obtainable from get_loss_func returns *)
(* an output of the shape of its primary input.                            *)
C5_Original == pc = "done" => Shape(ret) = InputShape

(* C5 amended: mse, bounded_mse, binary cross-entropy, sid and wasserstein *)
(* return an output of the shape (batch, n) of their primary input;        *)
(* mcc_class_loss reduces the batch axis and returns shape (tasks,);       *)
(* mcc_multiclass_loss reduces both axes and returns a scalar; multiclass  *)
(* cross-entropy reduces the class axis and returns shape (batch,).        *)
C5_Amended ==
    pc = "done" =>
        CASE loss_func = "mcc_class_loss" -> Shape(ret) = <<InputShape[2]>>
          [] loss_func = "mcc_multiclass_loss" -> Shape(ret) = << >>
          [] loss_func = "CrossEntropyLoss" -> Shape(ret) = <<InputShape[1]>>
          [] OTHER -> Shape(ret) = InputShape

C5_Witness ==
    /\ pc = "done" /\ loss_func = "mcc_class_loss"
    /\ InputShape = <<2, 1>>
    /\ Shape(ret) = <<1>>

UnitWeightsFullMask ==
    /\ \A i \in 1..Len(call.mask) : \A j \in 1..Len(call.mask[i]) : call.mask[i][j]
    /\ \A i \in 1..Len(call.data_weights) : call.data_weights[i] = <<One>>

(* a task column whose targets hold both a 0 and a 1 *)
MixedColumn(j) ==
    /\ \E i \in 1..Len(call.targets) : call.targets[i][j] = Zero
    /\ \E i \in 1..Len(call.targets) : call.targets[i][j] = One

(* C6 as stated: with unit weights and a full mask, in every task column   *)
(* perfect predictions give loss 0 and complementary predictions give      *)
(* loss 2, also in columns whose targets are all 0 or all 1.               *)
C6_Original ==
    (pc = "done" /\ loss_func = "mcc_class_loss" /\ UnitWeightsFullMask) =>
        \A j \in 1..InputShape[2] :
            /\ call.kind = "perfect" => ret.data[j] = Zero
            /\ call.kind = "anti" => ret.data[j] = Q(2, 1)

(* C6 amended: with unit weights and a full mask, in every task column     *)
(* whose targets hold both a 0 and a 1, perfect predictions give loss 0    *)
(* and complementary predictions give loss 2; in a column whose targets    *)
(* are all 0 or all 1 the denominator is 0 and the loss is NaN in both     *)
(* cases.                                                                  *)
C6_Amended ==
    (pc = "done" /\ loss_func = "mcc_class_loss" /\ UnitWeightsFullMask) =>
        \A j \in 1..InputShape[2] :
            /\ (call.kind = "perfect" /\ MixedColumn(j)) => ret.data[j] = Zero
            /\ (call.kind = "anti" /\ MixedColumn(j)) => ret.data[j] = Q(2, 1)
            /\ (call.kind \in {"perfect", "anti"} /\ ~MixedColumn(j)) => ret.data[j] = NaN

C6_Witness ==
    /\ pc = "done" /\ loss_func = "mcc_class_loss" /\ UnitWeightsFullMask
    /\ call.kind = "anti" /\ InputShape = <<2, 2>>
    /\ MixedColumn(1) /\ ret.data[1] = Q(2, 1)
    /\ ~MixedColumn(2) /\ ret.data[2] = NaN

(***************************************************************************)
(* Claims about the spectral losses (checked under SpecSpectra)            *)
(***************************************************************************)
Positions == 1..Len(call.mask[1])
FullMask == \A j \in Positions : call.mask[1][j]
PositiveModel == \A j \in Positions : Less(Zero, call.model_spectra[1][j])

(* C7: in sid_loss every position where mask is false yields a loss of     *)
(* exactly 0, whatever the values there and also in a row whose mask is    *)
(* entirely false, where the normalization divides by a zero row sum.      *)
C7_SidMaskedZero ==
    (pc # "start" /\ loss_func = "sid_loss") =>
        \A j \in Positions :
            ~call.mask[1][j] =>
                /\ ret.data[1][j] = Zero
                /\ pc \in {"scaled", "retargeted"} => ret2.data[1][j] = Zero

(* an all-excluded row with nonzero model values: the row sum is 0 *)
C7_Witness ==
    /\ pc = "called" /\ loss_func = "sid_loss"
    /\ \A j \in Positions : ~call.mask[1][j] /\ call.model_spectra[1][j] # Zero
    /\ Div(Zero, SumSeq([j \in Positions |-> Zero])) = NaN
    /\ \A j \in Positions : ret.data[1][j] = Zero

(* C8: with threshold None and a full mask, when model_spectra equals      *)
(* target_spectra and the row is strictly positive and sums to 1, every    *)
(* element of the sid_loss and of the wasserstein_loss result is 0.        *)
C8_IdenticalSpectraZero ==
    (pc = "called" /\ call.threshold = NoThreshold /\ FullMask /\ PositiveModel
        /\ call.model_spectra = call.target_spectra
        /\ IsNormalized(call.model_spectra[1]))
        => \A j \in Positions : ret.data[1][j] = Zero

C8_Witness ==
    /\ pc = "called" /\ loss_func = "wasserstein_loss"
    /\ call.threshold = NoThreshold /\ FullMask /\ PositiveModel
    /\ call.model_spectra = call.target_spectra
    /\ call.model_spectra[1][1] = Q(1, 3)
    /\ IsNormalized(call.model_spectra[1])
    /\ \A j \in Positions : ret.data[1][j] = Zero

(* C9 as stated: with a full mask and strictly positive model values,      *)
(* multiplying the raw model_spectra row by a positive constant leaves the *)
(* loss unchanged, for threshold None and for a threshold value.           *)
C9_Original ==
    (pc = "scaled" /\ FullMask /\ PositiveModel) => ret2 = ret

(* C9 amended: the loss is unchanged when threshold is None; with a        *)
(* threshold value it is unchanged when no element of the raw row and no   *)
(* element of the multiplied row lies below the threshold (the clamp acts  *)
(* on the raw values, before the row is renormalized).                     *)
C9_Amended ==
    (pc = "scaled" /\ FullMask /\ PositiveModel
        /\ (call.threshold # NoThreshold =>
                \A j \in Positions :
                    /\ ~Less(call.model_spectra[1][j], call.threshold)
                    /\ ~Less(Mul(call.scale, call.model_spectra[1][j]), call.threshold)))
        => ret2 = ret

C9_Witness ==
    /\ pc = "scaled" /\ loss_func = "sid_loss" /\ FullMask /\ PositiveModel
    /\ call.threshold = NoThreshold /\ call.scale = Q(3, 1)
    /\ call.model_spectra[1][1] # call.model_spectra[1][2]
    /\ ret.data[1][1] # Zero
    /\ ret2 = ret

(* C10: the wasserstein_loss result does not depend on the target_spectra  *)
(* values at positions where mask is false: two calls that differ only     *)
(* there return the same loss at every position.                           *)
C10_WassersteinMaskedTarget ==
    (pc = "retargeted" /\ loss_func = "wasserstein_loss") => ret2 = ret

====
